---- MODULE Spec2Model ----
(***************************************************************************)
(* A model of the MILP constraint encoders of                              *)
(* claasp/cipher_modules/models/milp/utils/utils.py.                       *)
(*                                                                         *)
(* The state is the model the encoders work on (the integer and binary     *)
(* variable pools of the MIP, keyed by name with create-or-get semantics)  *)
(* and the outcome of one encoder call: the returned indicator, the        *)
(* returned constraint list and the exception raised, if any.  Linear      *)
(* expressions and constraints are symbolic values; the solutions of a     *)
(* constraint list are computed by evaluating it under every assignment    *)
(* of the MIP's variables within their bounds.                             *)
(***************************************************************************)
EXTENDS Integers, Sequences, FiniteSets, TLC

VARIABLES
    integer_variable,   \* model.integer_variable: key -> index of the MIP variable
    binary_variable,    \* model.binary_variable:  key -> index of the MIP variable
    call,               \* the encoder call made, with its arguments
    ret,                \* the indicator (or value) the call returned
    constraints,        \* the constraint list the call returned
    raised,             \* the exception the call raised, "none" if it returned
    pc                  \* "idle" before the call, "done" after it

vars == <<integer_variable, binary_variable, call, ret, constraints, raised, pc>>

(***************************************************************************)
(* Bounds of the model.                                                    *)
(***************************************************************************)
\* integer variables and integer constants range over 0..MaxInt
MaxInt == 2
\* generalized_and is called on 2..MaxAnd binary variables
MaxAnd == 5
\* the operands of the XOR encoders are chosen among NumWords bits (words)
NumWords == 5
\* generalized_xor is called on 1..MaxXorInputs inputs
MaxXorInputs == 2
\* and on a cover table of at most MaxCover inequalities
MaxCover == 2
\* if_then and if_then_else are given lists of at most MaxList constraints
MaxList == 2
\* if_elif_else is given at most MaxCond conditions and MaxCond branch lists
MaxCond == 3
\* generate_bitmask is called on n in 1..MaxBits
MaxBits == 40
\* to_binary is called on integers of at most MaxDigits binary digits
MaxDigits == 4

IntRange == 0..MaxInt
\* the bigM values the caller may pass: too small ones and large enough ones
BigMs == 0..(MaxInt + 2)

(***************************************************************************)
(* Linear expressions: (k + sum of t[v] * x_v) / den, where t maps the     *)
(* indices of the variables with a non-zero coefficient to it.             *)
(***************************************************************************)
NoTerms == [v \in {} |-> 0]

Const(c) == [k |-> c, t |-> NoTerms, den |-> 1]

Var(i) == [k |-> 0, t |-> [v \in {i} |-> 1], den |-> 1]

Coef(e, v) == IF v \in DOMAIN e.t THEN e.t[v] ELSE 0

Scale(m, e) ==
    LET c(v) == m * Coef(e, v)
    IN  [k |-> m * e.k, t |-> [v \in {w \in DOMAIN e.t : c(w) # 0} |-> c(v)],
         den |-> e.den]

Add(e1, e2) ==
    LET m1 == IF e1.den = e2.den THEN 1 ELSE e2.den
        m2 == IF e1.den = e2.den THEN 1 ELSE e1.den
        c(v) == m1 * Coef(e1, v) + m2 * Coef(e2, v)
    IN  [k |-> m1 * e1.k + m2 * e2.k,
         t |-> [v \in {w \in DOMAIN e1.t \cup DOMAIN e2.t : c(w) # 0} |-> c(v)],
         den |-> IF e1.den = e2.den THEN e1.den ELSE e1.den * e2.den]

Sub(e1, e2) == Add(e1, Scale(-1, e2))

\* (1. / n) * e
DivBy(e, n) == [k |-> e.k, t |-> e.t, den |-> e.den * n]

\* sum(list) of Python: 0 + list[0] + list[1] + ...
RECURSIVE SumList(_)
SumList(list) ==
    IF list = <<>> THEN Const(0)
    ELSE Add(SumList(SubSeq(list, 1, Len(list) - 1)), list[Len(list)])

\* the value of ret when the call returns no indicator
NoExpr == Const(0)

(***************************************************************************)
(* Linear constraints: lhs <= rhs or lhs = rhs.  a >= b is b <= a.         *)
(***************************************************************************)
Le(a, b) == [kind |-> "le", lhs |-> a, rhs |-> b]

Ge(a, b) == [kind |-> "le", lhs |-> b, rhs |-> a]

Eq(a, b) == [kind |-> "eq", lhs |-> a, rhs |-> b]

(***************************************************************************)
(* str() of an operand: an integer constant prints in decimal, a MIP       *)
(* variable as x_<index>, a variable plus a constant as <c> + x_<index>.   *)
(***************************************************************************)
Str(e) ==
    IF DOMAIN e.t = {} THEN ToString(e.k)
    ELSE LET v == CHOOSE w \in DOMAIN e.t : TRUE
         IN  IF e.k = 0 THEN "x_" \o ToString(v)
             ELSE ToString(e.k) \o " + x_" \o ToString(v)

(***************************************************************************)
(* The variable pools.  d[key] returns the variable of that key, creating  *)
(* it with the next free index of the MIP when the key is new.             *)
(***************************************************************************)
NumVars(d) == Cardinality(DOMAIN integer_variable) + Cardinality(DOMAIN d)

GetVar(d, key) ==
    IF key \in DOMAIN d THEN d ELSE [q \in DOMAIN d \cup {key} |->
                                        IF q = key THEN NumVars(d) ELSE d[q]]

RECURSIVE GetVars(_, _)
GetVars(d, keys) ==
    IF keys = <<>> THEN d ELSE GetVars(GetVar(d, Head(keys)), Tail(keys))

VarsOf(d, keys) == [i \in 1..Len(keys) |-> Var(d[keys[i]])]

\* the integer variables x[0], x[1] the caller created and bounded
x0 == Var(integer_variable["0"])
x1 == Var(integer_variable["1"])

(***************************************************************************)
(* Relational encoders.                                                    *)
(***************************************************************************)
\* milp_less without the "- 1" of its first constraint
milp_less_no_minus_one(d, a, b, bigM) ==
    LET name == Str(a) \o "_less_" \o Str(b) \o "_dummy"
        d1 == GetVar(d, name)
        a_less_b == Var(d1[name])
    IN  [d |-> d1, r |-> a_less_b,
         c |-> << Le(a, Add(b, Scale(bigM, Sub(Const(1), a_less_b)))),
                  Ge(a, Sub(b, Scale(bigM, a_less_b))) >>]

\* milp_less with the indicator inverted in both constraints
milp_less_inverted(d, a, b, bigM) ==
    LET name == Str(a) \o "_less_" \o Str(b) \o "_dummy"
        d1 == GetVar(d, name)
        a_less_b == Var(d1[name])
    IN  [d |-> d1, r |-> a_less_b,
         c |-> << Le(a, Add(Sub(b, Const(1)), Scale(bigM, a_less_b))),
                  Ge(a, Sub(b, Scale(bigM, Sub(Const(1), a_less_b)))) >>]

milp_less(d, a, b, bigM) ==
    LET name == Str(a) \o "_less_" \o Str(b) \o "_dummy"
        d1 == GetVar(d, name)
        a_less_b == Var(d1[name])
    IN  [d |-> d1, r |-> a_less_b,
         c |-> << Le(a, Add(Sub(b, Const(1)), Scale(bigM, Sub(Const(1), a_less_b)))),
                  Ge(a, Sub(b, Scale(bigM, a_less_b))) >>]

milp_leq(d, a, b, bigM) == milp_less(d, a, Add(b, Const(1)), bigM)

milp_greater(d, a, b, bigM) == milp_less(d, b, a, bigM)

milp_geq(d, a, b, bigM) == milp_less(d, b, Add(a, Const(1)), bigM)

(***************************************************************************)
(* Boolean encoders.                                                       *)
(***************************************************************************)
milp_and(d, a, b) ==
    LET name == Str(a) \o "_and_" \o Str(b) \o "_dummy"
        d1 == GetVar(d, name)
        a_and_b == Var(d1[name])
    IN  [d |-> d1, r |-> a_and_b,
         c |-> << Le(Sub(Add(a, b), Const(1)), a_and_b),
                  Le(a_and_b, a),
                  Le(a_and_b, b) >>]

milp_or(d, a, b) ==
    LET name == Str(a) \o "_or_" \o Str(b) \o "_dummy"
        d1 == GetVar(d, name)
        a_or_b == Var(d1[name])
    IN  [d |-> d1, r |-> a_or_b,
         c |-> << Ge(Add(a, b), a_or_b),
                  Ge(a_or_b, a),
                  Ge(a_or_b, b) >>]

\* str(v_0) + '_and_' + str(v_1) + ... + str(v_{n-1}) + '_dummy'
RECURSIVE JoinAnd(_)
JoinAnd(list) ==
    IF list = <<>> THEN ""
    ELSE Str(Head(list)) \o (IF Len(list) > 1 THEN "_and_" ELSE "_dummy")
         \o JoinAnd(Tail(list))

\* milp_generalized_and with sum(var_list) - len(var_list) as the lower bound
milp_generalized_and_no_plus_one(d, var_list) ==
    LET name == JoinAnd(var_list)
        d1 == GetVar(d, name)
        generalized_and == Var(d1[name])
    IN  [d |-> d1, r |-> generalized_and,
         c |-> << Le(Sub(SumList(var_list), Const(Len(var_list))), generalized_and) >>
               \o [i \in 1..Len(var_list) |-> Le(generalized_and, var_list[i])]]

milp_generalized_and(d, var_list) ==
    LET name == JoinAnd(var_list)
        d1 == GetVar(d, name)
        generalized_and == Var(d1[name])
    IN  [d |-> d1, r |-> generalized_and,
         c |-> << Le(Add(Sub(SumList(var_list), Const(Len(var_list))), Const(1)),
                     generalized_and) >>
               \o [i \in 1..Len(var_list) |-> Le(generalized_and, var_list[i])]]

milp_eq(d, a, b, bigM) ==
    LET leq == milp_leq(d, a, b, bigM)
        geq == milp_geq(leq.d, a, b, bigM)
        and == milp_and(geq.d, leq.r, geq.r)
    IN  [d |-> and.d, r |-> and.r, c |-> leq.c \o geq.c \o and.c]

milp_neq(d, a, b, bigM) ==
    LET less == milp_less(d, a, b, bigM)
        greater == milp_greater(less.d, a, b, bigM)
        or == milp_or(greater.d, less.r, greater.r)
    IN  [d |-> or.d, r |-> or.r, c |-> less.c \o greater.c \o or.c]

(***************************************************************************)
(* XOR encoders.  An inequality of a cover table is a sequence of the      *)
(* characters "0", "1" and "-".                                            *)
(***************************************************************************)
\* milp_xor without its last constraint a + b + c <= 2
milp_xor_three_constraints(a, b, c) ==
    << Ge(Add(a, b), c),
       Ge(Add(a, c), b),
       Ge(Add(b, c), a),
       Le(Add(Add(a, b), c), Const(3)) >>

milp_xor(a, b, c) ==
    << Ge(Add(a, b), c),
       Ge(Add(a, c), b),
       Ge(Add(b, c), a),
       Le(Add(Add(a, b), c), Const(2)) >>

\* the inner loop of the table encoders: the sum, over the first n positions
\* of ineq, of 1 - var for "1", var for "0" and nothing for any other character
RECURSIVE PatternSum(_, _, _)
PatternSum(ineq, var_list, n) ==
    IF n = 0 THEN Const(0)
    ELSE LET constraint == PatternSum(ineq, var_list, n - 1)
             char == ineq[n]
         IN  IF char = "1" THEN Add(constraint, Sub(Const(1), var_list[n]))
             ELSE IF char = "0" THEN Add(constraint, var_list[n])
             ELSE constraint

\* the body of the loop over the cover table: the constraints one inequality adds
XorInequality(ineq, input_var_list, output_bit) ==
    LET number_of_inputs == Len(input_var_list)
        constraint == PatternSum(ineq, input_var_list, number_of_inputs)
        last_char == ineq[number_of_inputs + 1]
    IN  IF last_char = "1"
        THEN << Ge(Add(constraint, Sub(Const(1), output_bit)), Const(1)) >>
        ELSE IF last_char = "0"
        THEN << Ge(Add(constraint, output_bit), Const(1)) >>
        ELSE << >>

\* inequalities is dict_inequalities[number_of_inputs], the cover the cache holds
RECURSIVE milp_generalized_xor(_, _, _)
milp_generalized_xor(inequalities, input_var_list, output_bit) ==
    IF inequalities = <<>> THEN <<>>
    ELSE XorInequality(Head(inequalities), input_var_list, output_bit)
         \o milp_generalized_xor(Tail(inequalities), input_var_list, output_bit)

(***************************************************************************)
(* Truncated XOR encoders.                                                 *)
(***************************************************************************)
espresso_inequalities_bitwise ==
    <<
      <<"-","1","-","0","0","0">>,
      <<"-","0","-","1","0","0">>,
      <<"-","-","-","-","1","1">>,
      <<"0","-","0","-","1","-">>,
      <<"-","0","-","0","-","1">>,
      <<"-","1","-","1","-","1">>,
      <<"1","1","-","-","-","-">>,
      <<"-","-","1","-","0","-">>,
      <<"1","-","-","-","0","-">>,
      <<"-","-","1","1","-","-">>
    >>

\* the loop shared by the two truncated encoders
TableConstraints(table, all_vars) ==
    [j \in 1..Len(table) |->
        Ge(PatternSum(table[j], all_vars, Len(table[j])), Const(1))]

\* milp_xor_truncated reading the variables as output + input_1 + input_2
milp_xor_truncated_output_first(d, input_1, input_2, output) ==
    LET keys == input_1 \o input_2 \o output
        d1 == GetVars(d, keys)
        all_vars == VarsOf(d1, output \o input_1 \o input_2)
    IN  [d |-> d1, r |-> NoExpr,
         c |-> TableConstraints(espresso_inequalities_bitwise, all_vars)]

milp_xor_truncated(d, input_1, input_2, output) ==
    LET keys == input_1 \o input_2 \o output
        d1 == GetVars(d, keys)
        all_vars == VarsOf(d1, keys)
    IN  [d |-> d1, r |-> NoExpr,
         c |-> TableConstraints(espresso_inequalities_bitwise, all_vars)]

espresso_inequalities_wordwise ==
    <<
      <<"0","-","0","0","0","0","0","0","0","0","-","0","-","-","-","-","-","-","-","-","-","1","-","-","-","-","-","-","-","-">>,
      <<"-","0","-","-","-","-","-","-","-","-","0","-","0","0","0","0","0","0","0","0","-","1","-","-","-","-","-","-","-","-">>,
      <<"-","1","-","-","-","-","-","-","-","-","-","-","0","0","0","0","0","0","0","0","-","0","-","-","-","-","-","-","-","-">>,
      <<"-","-","0","0","0","0","0","0","0","0","-","1","-","-","-","-","-","-","-","-","-","0","-","-","-","-","-","-","-","-">>,
      <<"-","-","-","-","-","-","-","-","-","-","-","-","-","-","-","-","-","-","-","-","-","0","1","-","-","-","-","-","-","-">>,
      <<"-","-","-","-","-","-","-","-","-","-","-","-","-","-","-","-","-","-","-","-","0","1","0","0","0","0","0","0","0","0">>,
      <<"-","-","-","-","-","-","-","-","-","-","-","-","-","-","-","-","-","-","-","-","-","0","-","1","-","-","-","-","-","-">>,
      <<"-","-","-","-","-","-","-","-","-","-","-","-","-","-","-","-","-","-","-","-","1","-","1","-","-","-","-","-","-","-">>,
      <<"-","-","-","-","-","-","-","-","-","-","-","-","-","-","-","-","-","-","-","-","-","0","-","-","1","-","-","-","-","-">>,
      <<"-","-","-","-","-","-","-","-","-","-","-","-","-","-","-","-","-","-","-","-","1","-","-","1","-","-","-","-","-","-">>,
      <<"-","-","-","-","-","-","-","-","-","-","-","-","-","-","-","-","-","-","-","-","-","0","-","-","-","1","-","-","-","-">>,
      <<"-","-","-","-","-","-","-","-","-","-","-","-","-","-","-","-","-","-","-","-","1","-","-","-","1","-","-","-","-","-">>,
      <<"-","-","-","-","-","-","-","-","-","-","-","-","-","-","-","-","-","-","-","-","-","0","-","-","-","-","1","-","-","-">>,
      <<"-","-","-","-","-","-","-","-","-","-","-","-","-","-","-","-","-","-","-","-","1","-","-","-","-","1","-","-","-","-">>,
      <<"-","-","-","-","-","-","-","-","-","-","-","-","-","-","-","-","-","-","-","-","-","0","-","-","-","-","-","1","-","-">>,
      <<"-","-","1","-","-","-","-","-","-","-","-","-","0","-","-","-","-","-","-","-","0","-","0","-","-","-","-","-","-","-">>,
      <<"-","-","0","-","-","-","-","-","-","-","-","-","1","-","-","-","-","-","-","-","0","-","0","-","-","-","-","-","-","-">>,
      <<"-","-","-","-","-","-","-","-","-","-","-","-","-","-","-","-","-","-","-","-","-","0","-","-","-","-","-","-","1","-">>,
      <<"-","-","-","1","-","-","-","-","-","-","-","-","-","0","-","-","-","-","-","-","0","-","-","0","-","-","-","-","-","-">>,
      <<"-","-","-","0","-","-","-","-","-","-","-","-","-","1","-","-","-","-","-","-","0","-","-","0","-","-","-","-","-","-">>,
      <<"-","-","-","-","1","-","-","-","-","-","-","-","-","-","0","-","-","-","-","-","0","-","-","-","0","-","-","-","-","-">>,
      <<"-","-","-","-","0","-","-","-","-","-","-","-","-","-","1","-","-","-","-","-","0","-","-","-","0","-","-","-","-","-">>,
      <<"-","-","-","-","-","-","-","-","-","-","-","-","-","-","-","-","-","-","-","-","1","-","-","-","-","-","1","-","-","-">>,
      <<"-","-","-","-","-","1","-","-","-","-","-","-","-","-","-","0","-","-","-","-","0","-","-","-","-","0","-","-","-","-">>,
      <<"-","-","-","-","-","0","-","-","-","-","-","-","-","-","-","1","-","-","-","-","0","-","-","-","-","0","-","-","-","-">>,
      <<"-","-","-","-","-","-","1","-","-","-","-","-","-","-","-","-","0","-","-","-","0","-","-","-","-","-","0","-","-","-">>,
      <<"-","-","-","-","-","-","0","-","-","-","-","-","-","-","-","-","1","-","-","-","0","-","-","-","-","-","0","-","-","-">>,
      <<"-","-","-","-","-","-","-","1","-","-","-","-","-","-","-","-","-","0","-","-","0","-","-","-","-","-","-","0","-","-">>,
      <<"-","-","-","-","-","-","-","0","-","-","-","-","-","-","-","-","-","1","-","-","0","-","-","-","-","-","-","0","-","-">>,
      <<"-","-","-","-","-","-","-","-","1","-","-","-","-","-","-","-","-","-","0","-","0","-","-","-","-","-","-","-","0","-">>,
      <<"-","-","-","-","-","-","-","-","0","-","-","-","-","-","-","-","-","-","1","-","0","-","-","-","-","-","-","-","0","-">>,
      <<"-","-","-","-","-","-","-","-","-","1","-","-","-","-","-","-","-","-","-","0","0","-","-","-","-","-","-","-","-","0">>,
      <<"-","-","-","-","-","-","-","-","-","0","-","-","-","-","-","-","-","-","-","1","0","-","-","-","-","-","-","-","-","0">>,
      <<"-","-","-","-","-","-","-","-","-","-","-","-","-","-","-","-","-","-","-","-","-","0","-","-","-","-","-","-","-","1">>,
      <<"-","-","-","-","-","-","-","-","-","-","-","-","-","-","-","-","-","-","-","-","1","-","-","-","-","-","-","1","-","-">>,
      <<"-","-","-","-","-","-","-","-","-","-","-","-","-","-","-","-","-","-","-","-","1","-","-","-","-","-","-","-","1","-">>,
      <<"-","-","-","-","-","-","-","-","-","-","-","-","-","-","-","-","-","-","-","-","1","-","-","-","-","-","-","-","-","1">>,
      <<"0","1","0","0","0","0","0","0","0","0","-","-","-","-","-","-","-","-","-","-","-","-","-","-","-","-","-","-","-","-">>,
      <<"-","-","-","-","-","-","-","-","-","-","0","1","0","0","0","0","0","0","0","0","-","-","-","-","-","-","-","-","-","-">>,
      <<"-","-","-","-","-","-","-","-","-","0","-","-","-","-","-","-","-","-","-","0","-","-","-","-","-","-","-","-","-","1">>,
      <<"-","-","-","-","-","-","-","-","-","1","-","-","-","-","-","-","-","-","-","1","-","-","-","-","-","-","-","-","-","1">>,
      <<"1","-","-","-","-","-","-","-","-","-","1","-","-","-","-","-","-","-","-","-","-","0","-","-","-","-","-","-","-","-">>,
      <<"0","-","-","-","-","-","-","-","-","-","0","-","-","-","-","-","-","-","-","-","1","-","-","-","-","-","-","-","-","-">>,
      <<"-","-","-","-","-","-","-","0","-","-","-","-","-","-","-","-","-","0","-","-","-","-","-","-","-","-","-","1","-","-">>,
      <<"-","-","-","-","-","-","0","-","-","-","-","-","-","-","-","-","0","-","-","-","-","-","-","-","-","-","1","-","-","-">>,
      <<"-","-","-","-","-","0","-","-","-","-","-","-","-","-","-","0","-","-","-","-","-","-","-","-","-","1","-","-","-","-">>,
      <<"-","-","-","-","0","-","-","-","-","-","-","-","-","-","0","-","-","-","-","-","-","-","-","-","1","-","-","-","-","-">>,
      <<"-","-","-","0","-","-","-","-","-","-","-","-","-","0","-","-","-","-","-","-","-","-","-","1","-","-","-","-","-","-">>,
      <<"-","-","0","-","-","-","-","-","-","-","-","-","0","-","-","-","-","-","-","-","-","-","1","-","-","-","-","-","-","-">>,
      <<"-","-","-","-","-","-","-","-","0","-","-","-","-","-","-","-","-","-","0","-","-","-","-","-","-","-","-","-","1","-">>,
      <<"-","-","-","-","-","-","-","-","1","-","-","-","-","-","-","-","-","-","1","-","-","-","-","-","-","-","-","-","1","-">>,
      <<"-","-","1","-","-","-","-","-","-","-","-","-","1","-","-","-","-","-","-","-","-","-","1","-","-","-","-","-","-","-">>,
      <<"-","-","-","-","-","-","1","-","-","-","-","-","-","-","-","-","1","-","-","-","-","-","-","-","-","-","1","-","-","-">>,
      <<"-","-","-","-","-","1","-","-","-","-","-","-","-","-","-","1","-","-","-","-","-","-","-","-","-","1","-","-","-","-">>,
      <<"-","-","-","-","1","-","-","-","-","-","-","-","-","-","1","-","-","-","-","-","-","-","-","-","1","-","-","-","-","-">>,
      <<"-","-","-","1","-","-","-","-","-","-","-","-","-","1","-","-","-","-","-","-","-","-","-","1","-","-","-","-","-","-">>,
      <<"-","-","-","-","-","-","-","1","-","-","-","-","-","-","-","-","-","1","-","-","-","-","-","-","-","-","-","1","-","-">>,
      <<"-","-","-","-","-","-","-","-","-","-","1","-","-","-","-","-","-","-","-","-","0","-","-","-","-","-","-","-","-","-">>,
      <<"1","-","-","-","-","-","-","-","-","-","-","-","-","-","-","-","-","-","-","-","0","-","-","-","-","-","-","-","-","-">>,
      <<"-","-","-","-","-","-","-","-","-","-","-","0","-","-","-","-","-","-","1","-","-","-","-","-","-","-","-","-","-","-">>,
      <<"-","-","-","-","-","-","-","-","-","-","1","-","-","-","-","-","-","-","1","-","-","-","-","-","-","-","-","-","-","-">>,
      <<"-","-","-","-","-","-","-","-","-","-","-","0","1","-","-","-","-","-","-","-","-","-","-","-","-","-","-","-","-","-">>,
      <<"-","-","-","-","-","-","-","-","-","-","1","-","1","-","-","-","-","-","-","-","-","-","-","-","-","-","-","-","-","-">>,
      <<"-","-","-","-","-","-","-","-","-","-","-","0","-","-","-","-","1","-","-","-","-","-","-","-","-","-","-","-","-","-">>,
      <<"-","-","-","-","-","-","-","-","-","-","1","-","-","-","-","-","1","-","-","-","-","-","-","-","-","-","-","-","-","-">>,
      <<"-","-","-","-","-","-","-","-","-","-","-","0","-","-","-","1","-","-","-","-","-","-","-","-","-","-","-","-","-","-">>,
      <<"-","-","-","-","-","-","-","-","-","-","1","-","-","-","-","1","-","-","-","-","-","-","-","-","-","-","-","-","-","-">>,
      <<"-","-","-","-","-","-","-","-","-","-","-","0","-","-","1","-","-","-","-","-","-","-","-","-","-","-","-","-","-","-">>,
      <<"-","-","-","-","-","-","-","-","-","-","1","-","-","-","1","-","-","-","-","-","-","-","-","-","-","-","-","-","-","-">>,
      <<"-","-","-","-","-","-","-","-","-","-","-","0","-","1","-","-","-","-","-","-","-","-","-","-","-","-","-","-","-","-">>,
      <<"-","-","-","-","-","-","-","-","-","-","1","-","-","1","-","-","-","-","-","-","-","-","-","-","-","-","-","-","-","-">>,
      <<"-","0","-","-","-","-","-","-","1","-","-","-","-","-","-","-","-","-","-","-","-","-","-","-","-","-","-","-","-","-">>,
      <<"-","0","-","-","-","-","-","1","-","-","-","-","-","-","-","-","-","-","-","-","-","-","-","-","-","-","-","-","-","-">>,
      <<"-","0","-","-","-","-","1","-","-","-","-","-","-","-","-","-","-","-","-","-","-","-","-","-","-","-","-","-","-","-">>,
      <<"-","0","-","-","-","1","-","-","-","-","-","-","-","-","-","-","-","-","-","-","-","-","-","-","-","-","-","-","-","-">>,
      <<"-","0","-","-","1","-","-","-","-","-","-","-","-","-","-","-","-","-","-","-","-","-","-","-","-","-","-","-","-","-">>,
      <<"-","0","-","1","-","-","-","-","-","-","-","-","-","-","-","-","-","-","-","-","-","-","-","-","-","-","-","-","-","-">>,
      <<"-","0","1","-","-","-","-","-","-","-","-","-","-","-","-","-","-","-","-","-","-","-","-","-","-","-","-","-","-","-">>,
      <<"-","-","-","-","-","-","-","-","-","-","-","0","-","-","-","-","-","1","-","-","-","-","-","-","-","-","-","-","-","-">>,
      <<"-","-","-","-","-","-","-","-","-","-","1","-","-","-","-","-","-","1","-","-","-","-","-","-","-","-","-","-","-","-">>,
      <<"1","-","-","-","-","-","-","-","1","-","-","-","-","-","-","-","-","-","-","-","-","-","-","-","-","-","-","-","-","-">>,
      <<"1","-","-","-","-","-","-","1","-","-","-","-","-","-","-","-","-","-","-","-","-","-","-","-","-","-","-","-","-","-">>,
      <<"1","-","-","-","-","-","1","-","-","-","-","-","-","-","-","-","-","-","-","-","-","-","-","-","-","-","-","-","-","-">>,
      <<"1","-","-","-","-","1","-","-","-","-","-","-","-","-","-","-","-","-","-","-","-","-","-","-","-","-","-","-","-","-">>,
      <<"1","-","-","-","1","-","-","-","-","-","-","-","-","-","-","-","-","-","-","-","-","-","-","-","-","-","-","-","-","-">>,
      <<"1","-","-","1","-","-","-","-","-","-","-","-","-","-","-","-","-","-","-","-","-","-","-","-","-","-","-","-","-","-">>,
      <<"1","-","1","-","-","-","-","-","-","-","-","-","-","-","-","-","-","-","-","-","-","-","-","-","-","-","-","-","-","-">>,
      <<"-","-","-","-","-","-","-","-","-","-","-","0","-","-","-","-","-","-","-","1","-","-","-","-","-","-","-","-","-","-">>,
      <<"-","-","-","-","-","-","-","-","-","-","1","-","-","-","-","-","-","-","-","1","-","-","-","-","-","-","-","-","-","-">>,
      <<"-","0","-","-","-","-","-","-","-","1","-","-","-","-","-","-","-","-","-","-","-","-","-","-","-","-","-","-","-","-">>,
      <<"1","-","-","-","-","-","-","-","-","1","-","-","-","-","-","-","-","-","-","-","-","-","-","-","-","-","-","-","-","-">>
    >>

\* milp_xor_truncated_wordwise reading the variables as output + input_1 + input_2
milp_xor_truncated_wordwise_output_first(d, input_1, input_2, output) ==
    LET keys == input_1 \o input_2 \o output
        d1 == GetVars(d, keys)
        all_vars == VarsOf(d1, output \o input_1 \o input_2)
    IN  [d |-> d1, r |-> NoExpr,
         c |-> TableConstraints(espresso_inequalities_wordwise, all_vars)]

milp_xor_truncated_wordwise(d, input_1, input_2, output) ==
    LET keys == input_1 \o input_2 \o output
        d1 == GetVars(d, keys)
        all_vars == VarsOf(d1, keys)
    IN  [d |-> d1, r |-> NoExpr,
         c |-> TableConstraints(espresso_inequalities_wordwise, all_vars)]

(***************************************************************************)
(* Conditional encoders.                                                   *)
(***************************************************************************)
\* the loop over a constraint list that every conditional encoder repeats:
\* an inequality lhs <= rhs gives lhs <= rhs + slack, an equation both
\* lhs <= rhs + slack and rhs <= lhs + slack
RECURSIVE RelaxAll(_, _)
RelaxAll(cs, slack) ==
    IF cs = <<>> THEN <<>>
    ELSE LET constr == Head(cs)
         IN  (IF constr.kind = "le"
              THEN << Le(constr.lhs, Add(constr.rhs, slack)) >>
              ELSE << Le(constr.lhs, Add(constr.rhs, slack)),
                      Le(constr.rhs, Add(constr.lhs, slack)) >>)
             \o RelaxAll(Tail(cs), slack)

milp_if_then(var_if, then_constraints, bigM) ==
    RelaxAll(then_constraints, Scale(bigM, Sub(Const(1), var_if)))

\* milp_if_then_else relaxing the else branch by bigM * (1 - var_if) too
milp_if_then_else_same_slack(var_if, then_constraints, else_constraints, bigM) ==
    milp_if_then(var_if, then_constraints, bigM)
    \o RelaxAll(else_constraints, Scale(bigM, Sub(Const(1), var_if)))

milp_if_then_else(var_if, then_constraints, else_constraints, bigM) ==
    milp_if_then(var_if, then_constraints, bigM)
    \o RelaxAll(else_constraints, Scale(bigM, var_if))

\* the keys of the decision variables: decision_varname + '_' + str(i)
DecisionKeys(var_if_list) ==
    [i \in 1..Len(var_if_list) |-> JoinAnd(var_if_list) \o "_" \o ToString(i - 1)]

\* decision_constraints of branch i (counted from 1):
\* (1 - var_if_list[j]) for every j before i, plus var_if_list[i]
DecisionSum(var_if_list, i) ==
    SumList([j \in 1..i |-> IF j = i THEN var_if_list[j]
                            ELSE Sub(Const(1), var_if_list[j])])

\* the constraints the loop over the branches appends for the branches i..num_cond
RECURSIVE BranchConstraints(_, _, _, _, _)
BranchConstraints(var_if_list, decision_var, then_constraints_list, bigM, i) ==
    LET num_cond == Len(var_if_list)
        decision_constraints == DecisionSum(var_if_list, i)
    IN  IF i > num_cond THEN <<>>
        ELSE << Le(decision_constraints,
                   Sub(Add(decision_var[i], Const(num_cond)), Const(1))),
                Ge(DivBy(decision_constraints, num_cond), decision_var[i]) >>
             \o RelaxAll(then_constraints_list[i],
                         Scale(bigM, Sub(Const(1), decision_var[i])))
             \o BranchConstraints(var_if_list, decision_var, then_constraints_list,
                                  bigM, i + 1)

\* the body of milp_if_elif_else relaxing the else branch by
\* bigM * (1 - sum(decision_var))
IfElifElseBody_else_inverted(d, var_if_list, then_constraints_list, else_constraints, bigM) ==
    IF Len(var_if_list) = 1
    THEN [d |-> d, r |-> NoExpr, raised |-> "none",
          c |-> milp_if_then_else(var_if_list[1], then_constraints_list[1],
                                  else_constraints, bigM)]
    ELSE LET keys == DecisionKeys(var_if_list)
             d1 == GetVars(d, keys)
             decision_var == VarsOf(d1, keys)
         IN  [d |-> d1, r |-> NoExpr, raised |-> "none",
              c |-> BranchConstraints(var_if_list, decision_var,
                                      then_constraints_list, bigM, 1)
                    \o RelaxAll(else_constraints,
                                Scale(bigM, Sub(Const(1), SumList(decision_var))))]

\* the body of milp_if_elif_else after its assertion
IfElifElseBody(d, var_if_list, then_constraints_list, else_constraints, bigM) ==
    IF Len(var_if_list) = 1
    THEN [d |-> d, r |-> NoExpr, raised |-> "none",
          c |-> milp_if_then_else(var_if_list[1], then_constraints_list[1],
                                  else_constraints, bigM)]
    ELSE LET keys == DecisionKeys(var_if_list)
             d1 == GetVars(d, keys)
             decision_var == VarsOf(d1, keys)
         IN  [d |-> d1, r |-> NoExpr, raised |-> "none",
              c |-> BranchConstraints(var_if_list, decision_var,
                                      then_constraints_list, bigM, 1)
                    \o RelaxAll(else_constraints, Scale(bigM, SumList(decision_var)))]

\* milp_if_elif_else asserting only that no condition lacks a branch list
milp_if_elif_else_weak_assert(d, var_if_list, then_constraints_list, else_constraints, bigM) ==
    IF Len(var_if_list) > Len(then_constraints_list)
    THEN [d |-> d, r |-> NoExpr, raised |-> "AssertionError", c |-> <<>>]
    ELSE IfElifElseBody(d, var_if_list, then_constraints_list, else_constraints, bigM)

milp_if_elif_else(d, var_if_list, then_constraints_list, else_constraints, bigM) ==
    IF Len(var_if_list) # Len(then_constraints_list)
    THEN [d |-> d, r |-> NoExpr, raised |-> "AssertionError", c |-> <<>>]
    ELSE IfElifElseBody(d, var_if_list, then_constraints_list, else_constraints, bigM)

(***************************************************************************)
(* Integer helpers (claasp/utils/integer.py).  A Python integer n >= 0 is  *)
(* unbounded: it is modelled as the set of the positions of its bits that  *)
(* are 1, position 0 the least significant.                                *)
(***************************************************************************)
\* 1 << k
ShiftLeftOne(k) == {k}

\* x - 1, for x > 0: the lowest 1 becomes 0 and every bit below it 1
MinusOne(x) ==
    LET m == CHOOSE v \in x : \A w \in x : v <= w
    IN  (x \ {m}) \cup 0..(m - 1)

BitOr(x, y) == x \cup y

BitAnd(x, y) == x \cap y

\* the literal 0xFFFFFFFF has MaskBits bits
MaskBits == 32
Mask == 0..(MaskBits - 1)

\* & binds tighter than |: the mask applies to the second operand of | only
generate_bitmask(n) ==
    BitOr(MinusOne(ShiftLeftOne(n - 1)), BitAnd(ShiftLeftOne(n - 1), Mask))

\* the number of binary digits of x
BitLength(x) == IF x = {} THEN 0 ELSE 1 + (CHOOSE v \in x : \A w \in x : w <= v)

\* ZZ(x).digits(base=2, padto=n): the digits of x, least significant first,
\* padded with zeros to n digits
to_binary(x, n) ==
    [i \in 1..(IF n > BitLength(x) THEN n ELSE BitLength(x)) |->
        IF (i - 1) \in x THEN 1 ELSE 0]

(***************************************************************************)
(* The state after construction: the caller created the integer variables  *)
(* x[0], x[1] and no encoder has been called.                              *)
(***************************************************************************)
Init ==
    /\ integer_variable = [q \in {"0", "1"} |-> IF q = "0" THEN 0 ELSE 1]
    /\ binary_variable = [q \in {} |-> 0]
    /\ call = [op |-> "none"]
    /\ ret = NoExpr
    /\ constraints = <<>>
    /\ raised = "none"
    /\ pc = "idle"

\* an encoder returned res = [d, r, c]
Returned(res) ==
    /\ binary_variable' = res.d
    /\ ret' = res.r
    /\ constraints' = res.c
    /\ raised' = "none"
    /\ pc' = "done"
    /\ UNCHANGED integer_variable

\* the operands of a comparison: an integer variable or an integer constant
Operands == {x0, x1} \cup {Const(c) : c \in IntRange}

Less ==
    \E a \in Operands, b \in Operands, bigM \in BigMs :
        /\ pc = "idle"
        /\ call' = [op |-> "less", a |-> a, b |-> b, bigM |-> bigM]
        /\ Returned(milp_less(binary_variable, a, b, bigM))

Leq ==
    \E a \in Operands, b \in Operands, bigM \in BigMs :
        /\ pc = "idle"
        /\ call' = [op |-> "leq", a |-> a, b |-> b, bigM |-> bigM]
        /\ Returned(milp_leq(binary_variable, a, b, bigM))

Greater ==
    \E a \in Operands, b \in Operands, bigM \in BigMs :
        /\ pc = "idle"
        /\ call' = [op |-> "greater", a |-> a, b |-> b, bigM |-> bigM]
        /\ Returned(milp_greater(binary_variable, a, b, bigM))

Geq ==
    \E a \in Operands, b \in Operands, bigM \in BigMs :
        /\ pc = "idle"
        /\ call' = [op |-> "geq", a |-> a, b |-> b, bigM |-> bigM]
        /\ Returned(milp_geq(binary_variable, a, b, bigM))

EqCall ==
    \E a \in Operands, b \in Operands, bigM \in BigMs :
        /\ pc = "idle"
        /\ call' = [op |-> "eq", a |-> a, b |-> b, bigM |-> bigM]
        /\ Returned(milp_eq(binary_variable, a, b, bigM))

Neq ==
    \E a \in Operands, b \in Operands, bigM \in BigMs :
        /\ pc = "idle"
        /\ call' = [op |-> "neq", a |-> a, b |-> b, bigM |-> bigM]
        /\ Returned(milp_neq(binary_variable, a, b, bigM))

\* the caller's binary variables d[0], ..., d[n-1], taken in the order keys
CallerKeys(n) == [i \in 1..n |-> ToString(i - 1)]
Rotate(s, r) == [i \in 1..Len(s) |-> s[((i - 1 + r) % Len(s)) + 1]]

And ==
    \E r \in 0..1 :
        LET keys == Rotate(CallerKeys(2), r)
            d == GetVars(binary_variable, keys)
            v == VarsOf(d, keys)
        IN  /\ pc = "idle"
            /\ call' = [op |-> "and", vars |-> v]
            /\ Returned(milp_and(d, v[1], v[2]))

Or ==
    \E r \in 0..1 :
        LET keys == Rotate(CallerKeys(2), r)
            d == GetVars(binary_variable, keys)
            v == VarsOf(d, keys)
        IN  /\ pc = "idle"
            /\ call' = [op |-> "or", vars |-> v]
            /\ Returned(milp_or(d, v[1], v[2]))

GeneralizedAnd ==
    \E n \in 2..MaxAnd : \E r \in 0..(n - 1) :
        LET keys == Rotate(CallerKeys(n), r)
            d == GetVars(binary_variable, keys)
            v == VarsOf(d, keys)
        IN  /\ pc = "idle"
            /\ call' = [op |-> "generalized_and", vars |-> v]
            /\ Returned(milp_generalized_and(d, v))

\* three distinct caller keys out of 0..NumWords-1
Triples == {t \in [1..3 -> 0..(NumWords - 1)] : t[1] # t[2] /\ t[1] # t[3] /\ t[2] # t[3]}

Xor ==
    \E t \in Triples :
        LET keys == [i \in 1..3 |-> ToString(t[i])]
            d == GetVars(binary_variable, keys)
            v == VarsOf(d, keys)
        IN  /\ pc = "idle"
            /\ call' = [op |-> "xor", vars |-> v]
            /\ Returned([d |-> d, r |-> NoExpr, c |-> milp_xor(v[1], v[2], v[3])])

\* the cover tables the cache may hold for n inputs: up to MaxCover
\* inequalities of length n + 1 over "0", "1" and "-", each with a literal
\* (the sum of a pattern without one is the integer 0, and 0 >= 1 no constraint)
Chars == {"0", "1", "-"}
Patterns(n) == {p \in [1..(n + 1) -> Chars] : \E i \in 1..(n + 1) : p[i] # "-"}
Covers(n) == UNION {[1..m -> Patterns(n)] : m \in 0..MaxCover}

GeneralizedXor ==
    \E n \in 1..MaxXorInputs : \E inequalities \in Covers(n) :
        LET keys == CallerKeys(n + 1)
            d == GetVars(binary_variable, keys)
            v == VarsOf(d, keys)
            input_var_list == SubSeq(v, 1, n)
            output_bit == v[n + 1]
        IN  /\ pc = "idle"
            /\ call' = [op |-> "generalized_xor", inequalities |-> inequalities,
                        inputs |-> input_var_list, output |-> output_bit]
            /\ Returned([d |-> d, r |-> NoExpr,
                         c |-> milp_generalized_xor(inequalities, input_var_list,
                                                    output_bit)])

\* the keys of the bits of word w, for words of the given number of bits
WordKeys(w, bits) == [i \in 1..bits |-> ToString(w * bits + i - 1)]

\* a value is a pair of bits: the inequalities have 6 characters
XorTruncated ==
    \E t \in Triples :
        LET input_1 == WordKeys(t[1], 2)
            input_2 == WordKeys(t[2], 2)
            output == WordKeys(t[3], 2)
            res == milp_xor_truncated(binary_variable, input_1, input_2, output)
        IN  /\ pc = "idle"
            /\ call' = [op |-> "xor_truncated", a |-> VarsOf(res.d, input_1),
                        b |-> VarsOf(res.d, input_2), c |-> VarsOf(res.d, output)]
            /\ Returned(res)

\* a word is 2 class bits and 8 value bits: the inequalities have 30 characters;
\* the three words are words 0, 1, 2 in any order
XorTruncatedWordwise ==
    \E t \in Triples :
        LET input_1 == WordKeys(t[1], 10)
            input_2 == WordKeys(t[2], 10)
            output == WordKeys(t[3], 10)
            res == milp_xor_truncated_wordwise(binary_variable, input_1, input_2, output)
        IN  /\ pc = "idle"
            /\ (\A i \in 1..3 : t[i] < 3)
            /\ call' = [op |-> "xor_truncated_wordwise", a |-> VarsOf(res.d, input_1),
                        b |-> VarsOf(res.d, input_2), c |-> VarsOf(res.d, output)]
            /\ Returned(res)

\* the constraints the caller builds over x[0], x[1]: inequalities and equations
SampleLe1 == Le(x0, x1)
SampleLe2 == Le(Add(x0, Const(1)), x1)
SampleEq1 == Eq(x0, Const(1))
SampleEq2 == Eq(x1, Add(x0, Const(1)))
Samples == {SampleLe1, SampleEq1, SampleEq2}

\* the constraint lists given to if_then and if_then_else
ConstraintLists == UNION {[1..m -> Samples] : m \in 0..MaxList}

\* the constraint lists given to if_elif_else, as branches and as else
BranchLists == {<<SampleLe1, SampleEq1>>, <<SampleEq2>>, <<SampleLe2>>}

\* the bigM values the caller passes to the conditional encoders
CondBigMs == {1, MaxInt + 1}

\* an encoder returned or raised res = [d, r, c, raised]
ReturnedOrRaised(res) ==
    /\ binary_variable' = res.d
    /\ ret' = res.r
    /\ constraints' = res.c
    /\ raised' = res.raised
    /\ pc' = "done"
    /\ UNCHANGED integer_variable

IfThen ==
    \E then_constraints \in ConstraintLists, bigM \in CondBigMs :
        LET keys == CallerKeys(1)
            d == GetVars(binary_variable, keys)
            var_if == VarsOf(d, keys)[1]
        IN  /\ pc = "idle"
            /\ call' = [op |-> "if_then", cond |-> var_if, then |-> then_constraints,
                        bigM |-> bigM]
            /\ Returned([d |-> d, r |-> NoExpr,
                         c |-> milp_if_then(var_if, then_constraints, bigM)])

IfThenElse ==
    \E then_constraints \in ConstraintLists, else_constraints \in ConstraintLists,
       bigM \in CondBigMs :
        LET keys == CallerKeys(1)
            d == GetVars(binary_variable, keys)
            var_if == VarsOf(d, keys)[1]
        IN  /\ pc = "idle"
            /\ call' = [op |-> "if_then_else", cond |-> var_if,
                        then |-> then_constraints, else |-> else_constraints,
                        bigM |-> bigM]
            /\ Returned([d |-> d, r |-> NoExpr,
                         c |-> milp_if_then_else(var_if, then_constraints,
                                                 else_constraints, bigM)])

IfElifElse ==
    \E n \in 1..MaxCond, m \in 0..MaxCond :
      \E then_constraints_list \in [1..m -> BranchLists],
         else_constraints \in BranchLists, bigM \in CondBigMs :
        LET keys == CallerKeys(n)
            d == GetVars(binary_variable, keys)
            var_if_list == VarsOf(d, keys)
            res == milp_if_elif_else(d, var_if_list, then_constraints_list,
                                     else_constraints, bigM)
        IN  /\ pc = "idle"
            /\ call' = [op |-> "if_elif_else", conds |-> var_if_list,
                        then |-> then_constraints_list, else |-> else_constraints,
                        bigM |-> bigM]
            /\ ReturnedOrRaised(res)

GenerateBitmask ==
    \E n \in 1..MaxBits :
        /\ pc = "idle"
        /\ call' = [op |-> "generate_bitmask", n |-> n]
        /\ ret' = generate_bitmask(n)
        /\ constraints' = <<>>
        /\ raised' = "none"
        /\ pc' = "done"
        /\ UNCHANGED <<integer_variable, binary_variable>>

ToBinary ==
    \E x \in SUBSET (0..(MaxDigits - 1)), n \in 0..(MaxDigits + 1) :
        /\ pc = "idle"
        /\ call' = [op |-> "to_binary", x |-> x, n |-> n]
        /\ ret' = to_binary(x, n)
        /\ constraints' = <<>>
        /\ raised' = "none"
        /\ pc' = "done"
        /\ UNCHANGED <<integer_variable, binary_variable>>

NextRel ==
    \/ Less
    \/ Leq
    \/ Greater
    \/ Geq
    \/ EqCall
    \/ Neq
    \/ And
    \/ Or
    \/ GeneralizedAnd

NextXor ==
    \/ Xor
    \/ XorTruncated
    \/ XorTruncatedWordwise

NextGenXor == GeneralizedXor

NextCond ==
    \/ IfThen
    \/ IfThenElse
    \/ IfElifElse

NextInt ==
    \/ GenerateBitmask
    \/ ToBinary

Next == NextRel \/ NextXor \/ NextGenXor \/ NextCond \/ NextInt

\* every encoder
Spec == Init /\ [][Next]_vars
\* the relational and the boolean encoders
SpecRel == Init /\ [][NextRel]_vars
\* the fixed XOR encoders: milp_xor and the two truncated tables
SpecXor == Init /\ [][NextXor]_vars
\* milp_generalized_xor over the covers the cache may hold
SpecGenXor == Init /\ [][NextGenXor]_vars
\* the conditional encoders
SpecCond == Init /\ [][NextCond]_vars
\* the integer helpers
SpecInt == Init /\ [][NextInt]_vars

(***************************************************************************)
(* Solutions of a constraint list.                                         *)
(***************************************************************************)
RECURSIVE SumTerms(_, _, _)
SumTerms(S, t, env) ==
    IF S = {} THEN 0
    ELSE LET v == CHOOSE w \in S : TRUE
         IN  t[v] * env[v] + SumTerms(S \ {v}, t, env)

\* the numerator of e under env
Num(e, env) == e.k + SumTerms(DOMAIN e.t, e.t, env)

Holds(c, env) ==
    IF c.kind = "le"
    THEN Num(c.lhs, env) * c.rhs.den <= Num(c.rhs, env) * c.lhs.den
    ELSE Num(c.lhs, env) * c.rhs.den = Num(c.rhs, env) * c.lhs.den

AllHold(cs, env) == \A i \in 1..Len(cs) : Holds(cs[i], env)

IntIdx == {integer_variable[q] : q \in DOMAIN integer_variable}
BinIdx == {binary_variable[q] : q \in DOMAIN binary_variable}

IntEnvs == [IntIdx -> IntRange]
BinEnvs == [BinIdx -> 0..1]

\* the assignment of every variable of the MIP made of ie and be
Join(ie, be) == [v \in IntIdx \cup BinIdx |-> IF v \in IntIdx THEN ie[v] ELSE be[v]]

\* the value of an expression with denominator 1
Val(e, env) == Num(e, env)

(***************************************************************************)
(* Relational encoders: the indicator is the truth value of the relation.  *)
(***************************************************************************)
RelOps == {"less", "leq", "greater", "geq", "eq", "neq"}

Rel(op, u, v) ==
    CASE op = "less" -> u < v
      [] op = "leq" -> u <= v
      [] op = "greater" -> u > v
      [] op = "geq" -> u >= v
      [] op = "eq" -> u = v
      [] op = "neq" -> u # v

\* bigM exceeds every |a - b| the operands' range 0..MaxInt allows
BigMLargeEnough == call.bigM > MaxInt

\* C1: after less, leq, greater, geq, eq or neq on operands a, b within
\* 0..MaxInt with bigM > max |a - b|, the returned constraints are feasible
\* for every value of (a, b), and every assignment satisfying them gives the
\* returned indicator the value 1 when the relation holds of (a, b) and the
\* value 0 when it does not.
C1_RelationalIndicator ==
    (pc = "done" /\ call.op \in RelOps /\ BigMLargeEnough) =>
        \A ie \in IntEnvs :
            /\ \E be \in BinEnvs : AllHold(constraints, Join(ie, be))
            /\ \A be \in BinEnvs :
                  AllHold(constraints, Join(ie, be)) =>
                      Val(ret, be) = IF Rel(call.op, Val(call.a, ie), Val(call.b, ie))
                                     THEN 1 ELSE 0

\* eq was called on the two integer variables with a large enough bigM, and
\* the constraints have a solution with indicator 1 and one with indicator 0
C1_Witness ==
    /\ pc = "done" /\ call.op = "eq" /\ BigMLargeEnough
    /\ call.a = x0 /\ call.b = x1
    /\ \E ie \in IntEnvs, be \in BinEnvs :
          AllHold(constraints, Join(ie, be)) /\ Val(ret, be) = 1
    /\ \E ie \in IntEnvs, be \in BinEnvs :
          AllHold(constraints, Join(ie, be)) /\ Val(ret, be) = 0

(***************************************************************************)
(* Boolean encoders: the indicator is the AND / OR of the inputs.          *)
(***************************************************************************)
AllOne(list, env) == \A i \in 1..Len(list) : Val(list[i], env) = 1
SomeOne(list, env) == \E i \in 1..Len(list) : Val(list[i], env) = 1

Truth(op, list, env) ==
    IF op = "or" THEN (IF SomeOne(list, env) THEN 1 ELSE 0)
    ELSE (IF AllOne(list, env) THEN 1 ELSE 0)

\* C8: for every assignment of the n inputs (n in 2..MaxAnd) the constraints
\* of generalized_and are n + 1 in number and are satisfied by exactly one
\* value of the indicator, 1 if and only if every input is 1; those of and2
\* and or2 are likewise satisfied exactly when r = a AND b and r = a OR b.
C8_BooleanTruthTable ==
    (pc = "done" /\ call.op \in {"and", "or", "generalized_and"}) =>
        /\ call.op = "generalized_and" => Len(constraints) = Len(call.vars) + 1
        /\ \A be \in BinEnvs :
              AllHold(constraints, be) <=> Val(ret, be) = Truth(call.op, call.vars, be)

\* generalized_and was called on MaxAnd inputs, and its constraints have a
\* solution with every input 1 and the indicator 1
C8_Witness ==
    /\ pc = "done" /\ call.op = "generalized_and" /\ Len(call.vars) = MaxAnd
    /\ \E be \in BinEnvs :
          AllHold(constraints, be) /\ AllOne(call.vars, be) /\ Val(ret, be) = 1

(***************************************************************************)
(* XOR encoders.                                                           *)
(***************************************************************************)
XorOf(u, v) == (u + v) % 2

\* C4: of the 8 assignments of the binary (a, b, c), the four constraints of
\* xor3(a, b, c) are all satisfied exactly by the 4 with c = a XOR b.
C4_Xor3TruthTable ==
    (pc = "done" /\ call.op = "xor") =>
        /\ Len(constraints) = 4
        /\ \A be \in BinEnvs :
              AllHold(constraints, be) <=>
                  Val(call.vars[3], be) = XorOf(Val(call.vars[1], be), Val(call.vars[2], be))

\* xor3 returned, and (a, b, c) = (1, 0, 1) satisfies its constraints
C4_Witness ==
    /\ pc = "done" /\ call.op = "xor"
    /\ \E be \in BinEnvs :
          /\ AllHold(constraints, be)
          /\ Val(call.vars[1], be) = 1 /\ Val(call.vars[2], be) = 0
          /\ Val(call.vars[3], be) = 1

\* the value a bit pair (v0, v1) encodes, v0 the most significant bit
Decode(pair, env) == 2 * Val(pair[1], env) + Val(pair[2], env)

\* the documented table of the bitwise truncated XOR
BitwiseTable(a, b) ==
    IF a \in 0..1 /\ b \in 0..1 THEN XorOf(a, b) ELSE 2

\* C5: milp_xor_truncated returns 10 inequalities over (a0,a1,b0,b1,c0,c1),
\* and of the 64 assignments the ones satisfying them all are exactly the 9
\* with a, b in {0,1,2} and c the entry of the documented table for (a, b).
C5_TruncatedBitwiseTable ==
    (pc = "done" /\ call.op = "xor_truncated") =>
        /\ Len(constraints) = 10
        /\ Cardinality({be \in BinEnvs : AllHold(constraints, be)}) = 9
        /\ \A be \in BinEnvs :
              AllHold(constraints, be) <=>
                  /\ Decode(call.a, be) \in 0..2
                  /\ Decode(call.b, be) \in 0..2
                  /\ Decode(call.c, be) = BitwiseTable(Decode(call.a, be), Decode(call.b, be))

\* milp_xor_truncated returned, and the row 1, 2 -> 2 satisfies its inequalities
C5_Witness ==
    /\ pc = "done" /\ call.op = "xor_truncated"
    /\ \E be \in BinEnvs :
          /\ AllHold(constraints, be)
          /\ Decode(call.a, be) = 1 /\ Decode(call.b, be) = 2 /\ Decode(call.c, be) = 2

\* the index of the MIP variable a variable expression stands for
Idx(e) == CHOOSE v \in DOMAIN e.t : TRUE

VarsIn(c) == DOMAIN c.lhs.t \cup DOMAIN c.rhs.t

\* the elements of a set of indices in increasing order
RECURSIVE Sorted(_)
Sorted(S) ==
    IF S = {} THEN <<>>
    ELSE LET m == CHOOSE v \in S : \A w \in S : v <= w
         IN  <<m>> \o Sorted(S \ {m})

\* Some extension of the partial assignment asg to the variables of rest
\* satisfies every constraint of cs that mentions one of them.  A constraint
\* is evaluated when the last of its variables receives a value.
RECURSIVE Extends(_, _, _)
Extends(cs, asg, rest) ==
    IF rest = <<>> THEN TRUE
    ELSE \E val \in 0..1 :
            LET v == Head(rest)
                asg2 == [w \in DOMAIN asg \cup {v} |-> IF w = v THEN val ELSE asg[w]]
            IN  /\ \A j \in 1..Len(cs) :
                      (v \in VarsIn(cs[j]) /\ VarsIn(cs[j]) \subseteq DOMAIN asg2)
                          => Holds(cs[j], asg2)
                /\ Extends(cs, asg2, Tail(rest))

\* some assignment of the binary variables that agrees with asg satisfies cs
Feasible(cs, asg) ==
    /\ \A j \in 1..Len(cs) : VarsIn(cs[j]) \subseteq DOMAIN asg => Holds(cs[j], asg)
    /\ Extends(cs, asg, Sorted(BinIdx \ DOMAIN asg))

\* the assignment giving the class bits of the three words the classes a, b, c
ClassBits(a, b, c) ==
    LET bit(v) ==
            CASE v = Idx(call.a[1]) -> a \div 2  [] v = Idx(call.a[2]) -> a % 2
              [] v = Idx(call.b[1]) -> b \div 2  [] v = Idx(call.b[2]) -> b % 2
              [] v = Idx(call.c[1]) -> c \div 2  [] v = Idx(call.c[2]) -> c % 2
    IN  [v \in {Idx(call.a[1]), Idx(call.a[2]), Idx(call.b[1]), Idx(call.b[2]),
                Idx(call.c[1]), Idx(call.c[2])} |-> bit(v)]

\* the documented table of the wordwise truncated XOR: the output classes of (a, b)
WordwiseTable(a, b) ==
    CASE a = 0 -> {b}
      [] b = 0 -> {a}
      [] a = 1 /\ b = 1 -> {0, 1}
      [] OTHER -> {3}

\* C6: milp_xor_truncated_wordwise returns 91 inequalities over
\* input_1 + input_2 + output, and for every pair (a, b) of input classes the
\* output classes c for which some assignment of the value bits satisfies
\* them all are exactly the ones the documented table lists for (a, b).
C6_TruncatedWordwiseTable ==
    (pc = "done" /\ call.op = "xor_truncated_wordwise") =>
        /\ Len(constraints) = 91
        /\ \A a \in 0..3, b \in 0..3, c \in 0..3 :
              Feasible(constraints, ClassBits(a, b, c)) <=> c \in WordwiseTable(a, b)

\* milp_xor_truncated_wordwise returned, and both rows of (1, 1) are feasible
C6_Witness ==
    /\ pc = "done" /\ call.op = "xor_truncated_wordwise"
    /\ Feasible(constraints, ClassBits(1, 1, 0))
    /\ Feasible(constraints, ClassBits(1, 1, 1))

\* C7: generalized_xor returns exactly one constraint per pattern of the cover
\* table, in table order: sum(contributions) >= 1 over the n inputs and the
\* output bit, whatever character the pattern has at the output position.
C7_OneConstraintPerPattern ==
    (pc = "done" /\ call.op = "generalized_xor") =>
        constraints = TableConstraints(call.inequalities,
                                       call.inputs \o <<call.output>>)

(***************************************************************************)
(* Conditional encoders.                                                   *)
(***************************************************************************)
\* the number of constraints one relaxation of cs has: one for an inequality,
\* two for an equation
RECURSIVE RelaxedCount(_)
RelaxedCount(cs) ==
    IF cs = <<>> THEN 0
    ELSE (IF Head(cs).kind = "le" THEN 1 ELSE 2) + RelaxedCount(Tail(cs))

\* by how much the assignment ie of the integer variables violates c
Violation(c, ie) ==
    LET diff == Num(c.lhs, ie) - Num(c.rhs, ie)
    IN  IF c.kind = "le" \/ diff >= 0 THEN diff ELSE 0 - diff

\* bigM is at least the largest possible violation of any constraint of cs
Sufficient(bigM, cs) ==
    \A j \in 1..Len(cs) : \A ie \in IntEnvs : Violation(cs[j], ie) <= bigM

RECURSIVE Flatten(_)
Flatten(lists) ==
    IF lists = <<>> THEN <<>> ELSE Head(lists) \o Flatten(Tail(lists))

\* C3: with bigM at least the largest violation of any member of T and E, the
\* constraints of if_then_else(cond, T, E, bigM) are one per inequality and two
\* per equation of T and E, and they are satisfied, when cond = 1, exactly by
\* the assignments satisfying every constraint of T and, when cond = 0,
\* exactly by those satisfying every constraint of E.
C3_IfThenElse ==
    (pc = "done" /\ call.op = "if_then_else"
     /\ Sufficient(call.bigM, call.then \o call.else)) =>
        /\ Len(constraints) = RelaxedCount(call.then) + RelaxedCount(call.else)
        /\ \A ie \in IntEnvs, be \in BinEnvs :
              AllHold(constraints, Join(ie, be)) <=>
                  IF Val(call.cond, be) = 1 THEN AllHold(call.then, ie)
                  ELSE AllHold(call.else, ie)

\* if_then_else returned on a T and an E that each hold an inequality and an
\* equation, and its constraints have a solution with cond = 1 and one with cond = 0
C3_Witness ==
    /\ pc = "done" /\ call.op = "if_then_else"
    /\ Sufficient(call.bigM, call.then \o call.else)
    /\ call.then = <<SampleLe1, SampleEq1>>
    /\ call.else = <<SampleEq2, SampleLe1>>
    /\ \E ie \in IntEnvs, be \in BinEnvs :
          AllHold(constraints, Join(ie, be)) /\ Val(call.cond, be) = 1
    /\ \E ie \in IntEnvs, be \in BinEnvs :
          AllHold(constraints, Join(ie, be)) /\ Val(call.cond, be) = 0

\* if_elif_else returned, with a bigM at least the largest violation of any
\* member of its branch lists and its else list
ElifReturned ==
    /\ pc = "done" /\ call.op = "if_elif_else" /\ raised = "none"
    /\ Sufficient(call.bigM, Flatten(call.then) \o call.else)

\* the selectors (decision variables) the call created, none for one condition
Selectors ==
    IF Len(call.conds) = 1 THEN <<>>
    ELSE VarsOf(binary_variable, DecisionKeys(call.conds))

\* be sets condition i to 1 and every other condition to 0 (every one for i = 0)
OneHot(be, i) ==
    \A j \in 1..Len(call.conds) : Val(call.conds[j], be) = IF j = i THEN 1 ELSE 0

\* the assignments of the binary variables that, with the conditions one-hot
\* at i and the integer variables as in ie, satisfy the returned constraints
Solutions(ie, i) ==
    {be \in BinEnvs : OneHot(be, i) /\ AllHold(constraints, Join(ie, be))}

\* C2: after if_elif_else on n >= 1 conditions with a sufficiently large bigM,
\* under a condition vector that is one-hot at i the returned constraints
\* enforce exactly then_lists[i] (every solution satisfies it, and every other
\* branch and the else branch restrict nothing), and for n > 1 every solution
\* has selector i at 1 and every other selector at 0.
C2_OneHotSelectsBranch ==
    ElifReturned =>
        \A i \in 1..Len(call.conds) : \A ie \in IntEnvs :
            /\ (Solutions(ie, i) # {}) <=> AllHold(call.then[i], ie)
            /\ \A be \in Solutions(ie, i) : \A j \in 1..Len(Selectors) :
                  Val(Selectors[j], be) = IF j = i THEN 1 ELSE 0

\* C9: after if_elif_else on n >= 1 conditions with a sufficiently large bigM,
\* under the all-zero condition vector every selector is 0 in every solution,
\* and the returned constraints enforce exactly else_constraints (every
\* solution satisfies it, and no branch list restricts anything).
C9_AllZeroEnforcesElse ==
    ElifReturned =>
        \A ie \in IntEnvs :
            /\ (Solutions(ie, 0) # {}) <=> AllHold(call.else, ie)
            /\ \A be \in Solutions(ie, 0) : \A j \in 1..Len(Selectors) :
                  Val(Selectors[j], be) = 0

\* if_elif_else returned on MaxCond conditions, and its constraints have a
\* solution under the all-zero condition vector
C9_Witness ==
    /\ ElifReturned /\ Len(call.conds) = MaxCond
    /\ call.else = <<SampleLe1, SampleEq1>>
    /\ \E ie \in IntEnvs : Solutions(ie, 0) # {}

\* C10: if_elif_else called with len(cond_list) # len(then_lists) raises the
\* assertion error, returns no constraint, and leaves the binary pool with
\* the caller's condition variables only: no selector variable is created.
C10_ArityMismatchFails ==
    (pc = "done" /\ call.op = "if_elif_else" /\ Len(call.conds) # Len(call.then)) =>
        /\ raised = "AssertionError"
        /\ constraints = <<>>
        /\ DOMAIN binary_variable =
               {CallerKeys(Len(call.conds))[j] : j \in 1..Len(call.conds)}

\* if_elif_else was called with more branch lists than conditions, and raised
C10_Witness ==
    /\ pc = "done" /\ call.op = "if_elif_else"
    /\ Len(call.conds) >= 1 /\ Len(call.then) > Len(call.conds)
    /\ raised = "AssertionError"

(***************************************************************************)
(* milp_less with a bigM that is too small.                                *)
(***************************************************************************)
\* less was called on the two integer variables, in either order, with a
\* bigM of at most MaxInt, the largest |a - b| their range 0..MaxInt allows
LessTooSmall ==
    /\ pc = "done" /\ call.op = "less"
    /\ {call.a, call.b} = {x0, x1}
    /\ call.bigM <= MaxInt

\* the value r of the indicator contradicts the relation a < b under ie
Inconsistent(ie, r) ==
    \/ r = 1 /\ Val(call.a, ie) >= Val(call.b, ie)
    \/ r = 0 /\ Val(call.a, ie) < Val(call.b, ie)

\* C12 as stated: with a bigM that is too small, the two constraints of less
\* admit an assignment (a, b, r) that is inconsistent with the relation:
\* r = 1 with a >= b, or r = 0 with a < b.
C12_TooSmallAdmitsInconsistent ==
    LessTooSmall =>
        \E ie \in IntEnvs, be \in BinEnvs :
            AllHold(constraints, Join(ie, be)) /\ Inconsistent(ie, Val(ret, be))

\* C12, amended: with a bigM that is too small, every assignment (a, b, r)
\* satisfying the two constraints of less is still consistent with the
\* relation (r = 1 exactly when a < b), but the constraints are
\* over-constrained: for some (a, b) of the range no value of r satisfies them.
C12_TooSmallOverConstrains ==
    LessTooSmall =>
        /\ \A ie \in IntEnvs, be \in BinEnvs :
              AllHold(constraints, Join(ie, be)) => ~Inconsistent(ie, Val(ret, be))
        /\ \E ie \in IntEnvs :
              \A be \in BinEnvs : ~AllHold(constraints, Join(ie, be))

\* less was called on (x[0], x[1]) with bigM = MaxInt, and its constraints
\* have a solution with r = 1, one with r = 0, and none for some (a, b)
C12_Witness ==
    /\ LessTooSmall /\ call.bigM = MaxInt /\ call.a = x0
    /\ \E ie \in IntEnvs, be \in BinEnvs :
          AllHold(constraints, Join(ie, be)) /\ Val(ret, be) = 1
    /\ \E ie \in IntEnvs, be \in BinEnvs :
          AllHold(constraints, Join(ie, be)) /\ Val(ret, be) = 0
    /\ \E ie \in IntEnvs :
          \A be \in BinEnvs : ~AllHold(constraints, Join(ie, be))

(***************************************************************************)
(* if_elif_else as a priority chain.                                       *)
(***************************************************************************)
\* the constraints of the returned list that tie the selectors to the
\* conditions: the ones over binary variables only
SelectorConstraints ==
    LET keep(c) == VarsIn(c) \cap IntIdx = {}
    IN  SelectSeq(constraints, keep)

SomeTrue(be) == \E j \in 1..Len(call.conds) : Val(call.conds[j], be) = 1

\* the lowest index of a condition that be sets to 1
FirstTrue(be) ==
    CHOOSE i \in 1..Len(call.conds) :
        /\ Val(call.conds[i], be) = 1
        /\ \A j \in 1..(i - 1) : Val(call.conds[j], be) = 0

\* be2 gives the conditions the values be gives them
SameConds(be, be2) ==
    \A j \in 1..Len(call.conds) : Val(call.conds[j], be2) = Val(call.conds[j], be)

\* C13: if_elif_else is a priority chain: for n >= 2 conditions and every
\* condition vector with at least one 1, several 1s included, every assignment
\* satisfying the selector constraints has the selector of the lowest-index
\* true condition at 1 and every other selector at 0, and the returned
\* constraints enforce exactly that branch (the else branch is relaxed).
C13_FirstTrueWins ==
    (ElifReturned /\ Len(call.conds) >= 2) =>
        \A be \in {b \in BinEnvs : SomeTrue(b)} :
            /\ AllHold(SelectorConstraints, be) =>
                  \A j \in 1..Len(Selectors) :
                      Val(Selectors[j], be) = IF j = FirstTrue(be) THEN 1 ELSE 0
            /\ \A ie \in IntEnvs :
                  (\E be2 \in BinEnvs :
                      SameConds(be, be2) /\ AllHold(constraints, Join(ie, be2)))
                  <=> AllHold(call.then[FirstTrue(be)], ie)

(***************************************************************************)
(* Integer helpers.                                                        *)
(***************************************************************************)
\* C11: for every positive n (here 1..MaxBits, beyond 32), generate_bitmask(n)
\* is the n-bit integer with every bit 1, 2^n - 1: its 1 bits are 0..n-1.
C11_BitmaskAllOnes ==
    (pc = "done" /\ call.op = "generate_bitmask") => ret = 0..(call.n - 1)

====
